---- MODULE Spec2Model ----
(***************************************************************************)
(* Visitor quota, session authentication and password reset of the         *)
(* Investigate backend (src/server.js, src/database.js, src/auth.js).      *)
(*                                                                         *)
(* Strings are sequences of character codes, so that trimming, case        *)
(* folding, SQLite's NOCASE collation and SQLite's binary text comparison  *)
(* are computed and not assumed.  Time is counted in hours since the       *)
(* epoch; a timestamp is stored in the text format the code writes it in.  *)
(* Node runs one handler at a time: a synchronous handler is one action,   *)
(* an async handler is split at its single await.                          *)
(***************************************************************************)
EXTENDS Integers, Sequences, FiniteSets, TLC

\* ------------------------------------------------------------------------
\* Bounds of the model
\* ------------------------------------------------------------------------
\* the quota specification: tokens issued, log rows, suspended handlers
MaxTokens == 2
MaxLog == 4
MaxPending == 1
\* the account specification: tokens issued after the two registrations
AccountTokens == 3
AccountPending == 1
\* the reset race specification
ResetTokens == 2
ResetPending == 2
\* the session expiry specification
SessionTokens == 2
\* the registration specification
RegisterTokens == 3
RegisterPending == 2
\* the profile specification
ProfileTokens == 3
ProfilePending == 1
\* the visitor specification
VisitorLog == 4
\* the validation specification: tokens issued after the two registrations
ValidationTokens == 1
ValidationLog == 1

\* ------------------------------------------------------------------------
\* Text
\* ------------------------------------------------------------------------
SPACE == 32
AT == 64
DOT == 46
CH_T == 84

Min(a, b) == IF a <= b THEN a ELSE b
Max(a, b) == IF a >= b THEN a ELSE b

\* String.prototype.toLowerCase on ASCII text
ToLowerCase(s) == [i \in DOMAIN s |-> IF s[i] \in 65..90 THEN s[i] + 32 ELSE s[i]]

\* String.prototype.trim: strips leading and trailing white space
RECURSIVE TrimLeft(_)
TrimLeft(s) == IF s # <<>> /\ Head(s) = SPACE THEN TrimLeft(Tail(s)) ELSE s
RECURSIVE TrimRight(_)
TrimRight(s) ==
    IF s # <<>> /\ s[Len(s)] = SPACE THEN TrimRight(SubSeq(s, 1, Len(s) - 1)) ELSE s
Trim(s) == TrimRight(TrimLeft(s))

\* SQLite's BINARY collation on text: memcmp, the shorter string first on a tie
RECURSIVE TextLess(_, _)
TextLess(a, b) ==
    IF a = <<>> THEN b # <<>>
    ELSE IF b = <<>> THEN FALSE
    ELSE IF Head(a) # Head(b) THEN Head(a) < Head(b)
    ELSE TextLess(Tail(a), Tail(b))
TextGreater(a, b) == TextLess(b, a)

\* SQLite's NOCASE collation: equality after folding the ASCII letters
NoCaseEqual(a, b) == ToLowerCase(a) = ToLowerCase(b)

\* ------------------------------------------------------------------------
\* Time: the clock counts hours; a day has 24 of them
\* ------------------------------------------------------------------------
HOURS_PER_DAY == 24
SESSION_DURATION == 7 * HOURS_PER_DAY
VERIFICATION_EXPIRY == HOURS_PER_DAY
PASSWORD_RESET_EXPIRY == 1

\* Date.prototype.toISOString: "YYYY-MM-DDTHH:MM:SS.sssZ".  The fixed-width
\* date field is the day number, the fixed-width time field the hour.
ToISOString(t) == <<t \div HOURS_PER_DAY, CH_T, t % HOURS_PER_DAY>>
\* SQLite datetime('now') and CURRENT_TIMESTAMP: "YYYY-MM-DD HH:MM:SS"
SqlDatetime(t) == <<t \div HOURS_PER_DAY, SPACE, t % HOURS_PER_DAY>>

GenerateSessionExpiry(t) == ToISOString(t + SESSION_DURATION)
GenerateVerificationExpiry(t) == ToISOString(t + VERIFICATION_EXPIRY)
GeneratePasswordResetExpiry(t) == ToISOString(t + PASSWORD_RESET_EXPIRY)

\* the instant a stored ISO timestamp denotes
InstantOf(iso) == iso[1] * HOURS_PER_DAY + iso[3]

\* ------------------------------------------------------------------------
\* Credential and token utilities (src/auth.js)
\* ------------------------------------------------------------------------
NULL == 0
NoText == <<>>

PASSWORD_MIN_LENGTH == 12
BCRYPT_ROUNDS == 12

Letters == (65..90) \cup (97..122)
Digits == 48..57
\* the symbol class of the password rule: !@#$%^&*()_+-=[]{}|;:',.<>/?\`~"
Symbols == {33, 64, 35, 36, 37, 94, 38, 42, 40, 41, 95, 43, 45, 61, 91, 93, 123,
            125, 124, 59, 58, 39, 44, 46, 60, 62, 47, 63, 92, 96, 126, 34}

HasChar(s, class) == \E i \in DOMAIN s : s[i] \in class

\* EMAIL_REGEX /^[^\s@]+@[^\s@]+\.[^\s@]+$/ on a text
MatchesEmailRegex(s) ==
    /\ \A i \in DOMAIN s : s[i] # SPACE
    /\ \E p \in DOMAIN s :
         /\ s[p] = AT
         /\ \A i \in DOMAIN s : s[i] = AT => i = p
         /\ p > 1
         /\ \E q \in (p + 2)..(Len(s) - 1) : s[q] = DOT

\* validateEmail: an absent or empty value fails, else the regex on the trimmed text
ValidateEmail(email) == email # NoText /\ MatchesEmailRegex(Trim(email))

\* validatePassword: the list of violated rules, every rule checked
MsgRequired == "Password is required"
MsgLength == "Password must be at least 12 characters long"
MsgLetter == "Password must contain at least one letter"
MsgNumber == "Password must contain at least one number"
MsgSymbol == "Password must contain at least one symbol (...)"  \* the list of symbols elided
\* (mutant) validation stops at the first rule that is violated
PasswordErrorsFirst(password) ==
    IF password = NoText THEN <<MsgRequired>>
    ELSE IF Len(password) < PASSWORD_MIN_LENGTH THEN <<MsgLength>>
    ELSE IF ~HasChar(password, Letters) THEN <<MsgLetter>>
    ELSE IF ~HasChar(password, Digits) THEN <<MsgNumber>>
    ELSE IF ~HasChar(password, Symbols) THEN <<MsgSymbol>>
    ELSE <<>>
PasswordErrors(password) ==
    IF password = NoText THEN <<MsgRequired>>
    ELSE (IF Len(password) < PASSWORD_MIN_LENGTH THEN <<MsgLength>> ELSE <<>>)
         \o (IF ~HasChar(password, Letters) THEN <<MsgLetter>> ELSE <<>>)
         \o (IF ~HasChar(password, Digits) THEN <<MsgNumber>> ELSE <<>>)
         \o (IF ~HasChar(password, Symbols) THEN <<MsgSymbol>> ELSE <<>>)
\* (mutant) every password passes
ValidatePasswordLax(password) == [valid |-> TRUE, errors |-> <<>>]
ValidatePassword(password) ==
    [valid |-> PasswordErrors(password) = <<>>, errors |-> PasswordErrors(password)]

\* bcrypt: the hash determines which plaintext verifies, and nothing else is
\* read from it
HashPassword(password) == [algo |-> "bcrypt", rounds |-> BCRYPT_ROUNDS, plain |-> password]
\* (mutant) every password is accepted
VerifyPasswordAlways(password, hash) == TRUE
VerifyPassword(password, hash) == hash.plain = password

\* extractBearerToken: the header is given as its space-separated parts, the
\* scheme as text; NULL for no header, a wrong part count or a wrong scheme
BEARER == <<98, 101, 97, 114, 101, 114>>
ExtractBearerToken(authHeader) ==
    IF Len(authHeader) = 0 THEN NULL
    ELSE IF Len(authHeader) # 2 THEN NULL
    ELSE IF ToLowerCase(authHeader[1]) # BEARER THEN NULL
    ELSE authHeader[2]

\* Superuser allow-list: castiglionemaldonado@gmail.com
SUPERUSER_EMAILS ==
    {<<99, 97, 115, 116, 105, 103, 108, 105, 111, 110, 101, 109, 97, 108, 100, 111,
       110, 97, 100, 111, 64, 103, 109, 97, 105, 108, 46, 99, 111, 109>>}
IsSuperuser(email) == email # NoText /\ ToLowerCase(email) \in SUPERUSER_EMAILS

\* (mutant) the user object is returned as it is
SanitizeUserRaw(user) == user
\* sanitizeUser: the public view of a user object
SanitizeUser(user) ==
    [id |-> user.id, email |-> user.email, email_verified |-> user.email_verified # 0,
     tier |-> "free", is_superuser |-> IsSuperuser(user.email),
     created_at |-> user.created_at, last_login |-> user.last_login]

\* parseInt of a header text: the number its leading digits spell after any
\* leading white space, NaN when there is none; NaN matches no row id
NaN == -1
RECURSIVE DigitsValue(_, _)
DigitsValue(s, acc) ==
    IF s # <<>> /\ Head(s) \in Digits
    THEN DigitsValue(Tail(s), 10 * acc + (Head(s) - 48))
    ELSE acc
\* (mutant) an unparsable id falls back to the first row
ParseIntDefaulted(text) ==
    IF TrimLeft(text) # <<>> /\ Head(TrimLeft(text)) \in Digits
    THEN DigitsValue(TrimLeft(text), 0)
    ELSE 1
ParseInt(text) ==
    IF TrimLeft(text) # <<>> /\ Head(TrimLeft(text)) \in Digits
    THEN DigitsValue(TrimLeft(text), 0)
    ELSE NaN

\* ------------------------------------------------------------------------
\* State
\* ------------------------------------------------------------------------
VARIABLES
    now,              \* the wall clock, in hours
    visitors,         \* table visitors: row id = index
    users,            \* table users: row id = index
    sessions,         \* table sessions: a set of rows, token unique
    password_resets,  \* table password_resets: row id = index
    query_log,        \* table query_log: row id = index
    nextToken,        \* generateToken: the next fresh UUID
    pending,          \* async handlers suspended at their await
    resp              \* the response the last step sent, if it sent one

vars == <<now, visitors, users, sessions, password_resets, query_log, nextToken,
          pending, resp>>
tables == <<visitors, users, sessions, password_resets, query_log>>

\* A response is its status and body; beside them it carries what identifies
\* the request it answers (the token or visitor id presented) and, for a
\* DELETE, the number of rows the statement reports as changed.
NoResp == [op |-> "none"]

Init ==
    /\ now = 0
    /\ visitors = <<>>
    /\ users = <<>>
    /\ sessions = {}
    /\ password_resets = <<>>
    /\ query_log = <<>>
    /\ nextToken = 1
    /\ pending = <<>>
    /\ resp = NoResp

FREE_QUERY_LIMIT == 3

\* ------------------------------------------------------------------------
\* Persistent store (src/database.js)
\* ------------------------------------------------------------------------
\* (mutant) the lookup finds nothing
GetVisitorByFingerprintNone(fingerprint) == {}
\* SELECT ... WHERE fingerprint = ? : the ids of the matching rows
GetVisitorByFingerprint(fingerprint) ==
    {i \in DOMAIN visitors : visitors[i].fingerprint = fingerprint}
\* SELECT * FROM visitors WHERE id = ?
GetVisitorById(id) == {i \in DOMAIN visitors : i = id}

\* upsertVisitor: the table afterwards.  The columns no handler reads back
\* (last_seen, ip_address, user_agent and the browser metadata) are left out,
\* so the refresh of an existing row changes nothing that is modelled.
UpsertVisitorTable(fingerprint) ==
    IF GetVisitorByFingerprint(fingerprint) # {}
    THEN visitors
    ELSE Append(visitors, [fingerprint |-> fingerprint, query_count |-> 0])
\* upsertVisitor: the object returned
UpsertVisitorResult(fingerprint) ==
    IF GetVisitorByFingerprint(fingerprint) # {}
    THEN LET id == CHOOSE i \in GetVisitorByFingerprint(fingerprint) : TRUE
         IN [id |-> id, query_count |-> visitors[id].query_count,
             queries_remaining |-> Max(0, FREE_QUERY_LIMIT - visitors[id].query_count)]
    ELSE [id |-> Len(visitors) + 1, query_count |-> 0,
          queries_remaining |-> FREE_QUERY_LIMIT]

\* (mutant) the new count is written from a value read when the row was made
IncrementVisitorQueryCountStale(visitorId) ==
    [i \in DOMAIN visitors |->
        IF i = visitorId THEN [visitors[i] EXCEPT !.query_count = 0 + 1] ELSE visitors[i]]
\* (mutant) the counter advances by two
IncrementVisitorQueryCountTwice(visitorId) ==
    [i \in DOMAIN visitors |->
        IF i = visitorId
        THEN [visitors[i] EXCEPT !.query_count = visitors[i].query_count + 2]
        ELSE visitors[i]]
\* UPDATE visitors SET query_count = query_count + 1 WHERE id = ?
IncrementVisitorQueryCount(visitorId) ==
    [i \in DOMAIN visitors |->
        IF i = visitorId
        THEN [visitors[i] EXCEPT !.query_count = visitors[i].query_count + 1]
        ELSE visitors[i]]

\* (mutant) the WHERE clause is lost: the first row is returned
GetUserByEmailFirst(email) == {i \in DOMAIN users : i = 1}
\* SELECT * FROM users WHERE email = ? : the column collates NOCASE
GetUserByEmail(email) == {i \in DOMAIN users : NoCaseEqual(users[i].email, email)}
GetUserById(id) == {i \in DOMAIN users : i = id}

\* the user row with its id, as SELECT * returns it
UserRow(id) ==
    [id |-> id, email |-> users[id].email, password_hash |-> users[id].password_hash,
     email_verified |-> users[id].email_verified,
     verification_token |-> users[id].verification_token,
     verification_expires |-> users[id].verification_expires,
     visitor_id |-> users[id].visitor_id, is_superuser |-> users[id].is_superuser,
     created_at |-> users[id].created_at, last_login |-> users[id].last_login]

\* (mutant) no unique constraint on users.email
EmailTakenNever(email) == FALSE
\* users.email is UNIQUE COLLATE NOCASE: the insert of this email would fail
EmailTaken(email) == \E i \in DOMAIN users : NoCaseEqual(users[i].email, email)
\* users.visitor_id REFERENCES visitors(id), foreign keys on
VisitorKeyMissing(visitor_id) == visitor_id # NULL /\ visitor_id \notin DOMAIN visitors
\* createUser: whether the INSERT throws
CreateUserThrows(email, visitor_id) == EmailTaken(email) \/ VisitorKeyMissing(visitor_id)
\* createUser: the table afterwards
CreateUserTable(email, password_hash, visitor_id, verification_token, verification_expires) ==
    Append(users, [email |-> email, password_hash |-> password_hash,
                   email_verified |-> 0, verification_token |-> verification_token,
                   verification_expires |-> verification_expires,
                   visitor_id |-> visitor_id, is_superuser |-> 0,
                   created_at |-> SqlDatetime(now), last_login |-> NoText])
\* createUser: the object returned
CreateUserResult(email) ==
    [id |-> Len(users) + 1, email |-> email, email_verified |-> 0,
     created_at |-> ToISOString(now), last_login |-> NoText]

\* verifyUserEmail on a users table: the rows the SELECT matches
VerifiableUsers(table, token) ==
    {i \in DOMAIN table :
        /\ table[i].verification_token # NULL
        /\ table[i].verification_token = token
        /\ TextGreater(table[i].verification_expires, SqlDatetime(now))
        /\ table[i].email_verified = 0}
\* verifyUserEmail: the table afterwards (the first matching row is updated)
VerifyUserEmailTable(table, token) ==
    IF VerifiableUsers(table, token) = {} THEN table
    ELSE LET id == CHOOSE i \in VerifiableUsers(table, token) :
                       \A j \in VerifiableUsers(table, token) : i <= j
         IN [table EXCEPT ![id] = [@ EXCEPT !.email_verified = 1,
                                            !.verification_token = NULL,
                                            !.verification_expires = NoText]]

\* UPDATE users SET last_login = CURRENT_TIMESTAMP WHERE id = ?
UpdateUserLastLogin(table, userId) ==
    [i \in DOMAIN table |->
        IF i = userId THEN [table[i] EXCEPT !.last_login = SqlDatetime(now)] ELSE table[i]]
\* (mutant) the UPDATE matches no row
UpdateUserPasswordSkipped(userId, passwordHash) == users
\* UPDATE users SET password_hash = ? WHERE id = ?
UpdateUserPassword(userId, passwordHash) ==
    [i \in DOMAIN users |->
        IF i = userId THEN [users[i] EXCEPT !.password_hash = passwordHash] ELSE users[i]]

\* (mutant) a generator that repeats itself
GenerateTokenRepeated == Min(nextToken, 3)
\* generateToken: a UUID, never one that was issued before
GenerateToken == nextToken

\* sessions.token is UNIQUE: the insert of this token would fail
SessionTokenTaken(token) == \E s \in sessions : s.token = token
\* (mutant) a new session replaces the sessions its user had
CreateSessionReplacing(user_id, token, expires_at) ==
    {s \in sessions : s.user_id # user_id}
        \cup {[user_id |-> user_id, token |-> token, expires_at |-> expires_at]}
\* createSession: the table afterwards
CreateSession(user_id, token, expires_at) ==
    sessions \cup {[user_id |-> user_id, token |-> token, expires_at |-> expires_at]}
\* (mutant) the expiry comparison reversed
SessionUnexpiredReversed(s) == TextLess(s.expires_at, SqlDatetime(now))
\* the WHERE clause of getSessionByToken: s.expires_at > datetime('now')
SessionUnexpired(s) == TextGreater(s.expires_at, SqlDatetime(now))
\* getSessionByToken: the rows returned (the join with users never drops one)
GetSessionByToken(token) ==
    {s \in sessions : s.token = token /\ s.user_id \in DOMAIN users /\ SessionUnexpired(s)}
\* (mutant) the DELETE takes every session of the token's owner
DeleteSessionOfOwner(token) ==
    {s \in sessions : \A o \in sessions : o.token = token => s.user_id # o.user_id}
\* DELETE FROM sessions WHERE token = ?
DeleteSession(token) == {s \in sessions : s.token # token}
\* (mutant) the user's newest session is spared
DeleteUserSessionsButNewest(table, userId) ==
    {s \in table : \/ s.user_id # userId
                   \/ \A o \in table : o.user_id = userId => o.token <= s.token}
\* (mutant) the DELETE matches no row
DeleteUserSessionsNone(table, userId) == table
\* DELETE FROM sessions WHERE user_id = ?
DeleteUserSessions(table, userId) == {s \in table : s.user_id # userId}
\* (mutant) expiry decided on instants, not on the stored text
CleanExpiredSessionsByInstant == {s \in sessions : now < InstantOf(s.expires_at)}
\* DELETE FROM sessions WHERE expires_at <= datetime('now')
CleanExpiredSessions == {s \in sessions : TextGreater(s.expires_at, SqlDatetime(now))}

\* (mutant) the INSERT is lost
LogQueryDropped(visitor_id, user_id, address) == query_log
\* (mutant) the two id columns of the INSERT are swapped
LogQuerySwapped(visitor_id, user_id, address) ==
    Append(query_log, [visitor_id |-> user_id, user_id |-> visitor_id,
                       address |-> address, response_status |-> "success",
                       created_at |-> SqlDatetime(now)])
\* logQuery: the table afterwards (visitor_id || null, user_id || null)
LogQuery(visitor_id, user_id, address) ==
    Append(query_log, [visitor_id |-> visitor_id, user_id |-> user_id,
                       address |-> address, response_status |-> "success",
                       created_at |-> SqlDatetime(now)])
\* updateQueryResult: the rows of the inner SELECT, before ORDER BY and LIMIT
MatchingQueries(user_id, visitor_id, address) ==
    {i \in DOMAIN query_log :
        /\ query_log[i].address = address
        /\ \/ (user_id # NULL /\ query_log[i].user_id = user_id)
           \/ (visitor_id # NULL /\ query_log[i].visitor_id = visitor_id)}
\* ORDER BY created_at DESC LIMIT 1: a row with the greatest created_at; rows
\* written in the same second tie, and SQLite promises no order among them
LatestQueries(user_id, visitor_id, address) ==
    {i \in MatchingQueries(user_id, visitor_id, address) :
        \A j \in MatchingQueries(user_id, visitor_id, address) :
            ~TextLess(query_log[i].created_at, query_log[j].created_at)}
\* (mutant) the update also refreshes the row's timestamp
UpdateQueryResultTouching(id, response_status) ==
    [i \in DOMAIN query_log |->
        IF i = id THEN [query_log[i] EXCEPT !.response_status = response_status,
                                            !.created_at = SqlDatetime(now)]
        ELSE query_log[i]]
\* updateQueryResult with the row the inner SELECT picked
UpdateQueryResult(id, response_status) ==
    [i \in DOMAIN query_log |->
        IF i = id THEN [query_log[i] EXCEPT !.response_status = response_status]
        ELSE query_log[i]]

\* (mutant) prior tokens are left as they are
InvalidateResetsSkipped(userId) == password_resets
\* createPasswordReset: prior unused tokens of the user are marked used
InvalidateResets(userId) ==
    [i \in DOMAIN password_resets |->
        IF password_resets[i].user_id = userId /\ password_resets[i].used = 0
        THEN [password_resets[i] EXCEPT !.used = 1]
        ELSE password_resets[i]]
\* createPasswordReset: the table afterwards
CreatePasswordReset(userId, token, expiresAt) ==
    Append(InvalidateResets(userId),
           [user_id |-> userId, token |-> token, expires_at |-> expiresAt, used |-> 0])
\* the WHERE clause of getPasswordResetByToken on one row
ResetUnexpired(r) == TextGreater(r.expires_at, SqlDatetime(now))
\* (mutant) the used flag is not looked at
ResetUnusedIgnored(r) == TRUE
ResetUnused(r) == r.used = 0
\* getPasswordResetByToken: the ids of the rows returned
GetPasswordResetByToken(token) ==
    {i \in DOMAIN password_resets :
        /\ password_resets[i].token = token
        /\ password_resets[i].user_id \in DOMAIN users
        /\ ResetUnexpired(password_resets[i])
        /\ ResetUnused(password_resets[i])}
\* UPDATE password_resets SET used = 1 WHERE token = ?
MarkPasswordResetUsed(token) ==
    [i \in DOMAIN password_resets |->
        IF password_resets[i].token = token
        THEN [password_resets[i] EXCEPT !.used = 1]
        ELSE password_resets[i]]

\* ------------------------------------------------------------------------
\* HTTP handlers (src/server.js)
\* ------------------------------------------------------------------------
\* The row of a one-row result
TheOne(rows) == CHOOSE r \in rows : TRUE

\* Remove element i of a sequence
RemoveAt(seq, i) == SubSeq(seq, 1, i - 1) \o SubSeq(seq, i + 1, Len(seq))

\* POST /api/visitor
PostVisitor(fingerprint) ==
    /\ IF fingerprint = NoText
       THEN /\ resp' = [op |-> "visitor", status |-> 400]
            /\ UNCHANGED visitors
       ELSE /\ visitors' = UpsertVisitorTable(fingerprint)
            /\ resp' = [op |-> "visitor", status |-> 200,
                        visitor_id |-> UpsertVisitorResult(fingerprint).id,
                        query_count |-> UpsertVisitorResult(fingerprint).query_count,
                        queries_remaining |->
                            UpsertVisitorResult(fingerprint).queries_remaining]
    /\ UNCHANGED <<now, users, sessions, password_resets, query_log, nextToken, pending>>

\* The session a request's Authorization header resolves to: none or one row
SessionOf(authHeader) ==
    IF ExtractBearerToken(authHeader) # NULL
    THEN GetSessionByToken(ExtractBearerToken(authHeader))
    ELSE {}

\* (mutant) the ceiling check off by one
LimitReachedOffByOne(visitor) == visitor.query_count > FREE_QUERY_LIMIT
\* The free-tier ceiling check of POST /api/query
LimitReached(visitor) == visitor.query_count >= FREE_QUERY_LIMIT

\* POST /api/query
PostQuery(address, authHeader, visitorHeader) ==
    /\ IF address = NoText
       THEN /\ resp' = [op |-> "query", status |-> 400, error |-> "Address is required"]
            /\ UNCHANGED <<visitors, query_log>>
       ELSE IF SessionOf(authHeader) # {}
       THEN /\ query_log' = LogQuery(NULL, TheOne(SessionOf(authHeader)).user_id, address)
            /\ resp' = [op |-> "query", status |-> 200, allowed |-> TRUE,
                        authenticated |-> TRUE]
            /\ UNCHANGED visitors
       ELSE IF visitorHeader = NoText
       THEN /\ resp' = [op |-> "query", status |-> 400, require_login |-> TRUE,
                        error |-> "Visitor ID required for anonymous queries"]
            /\ UNCHANGED <<visitors, query_log>>
       ELSE IF GetVisitorById(ParseInt(visitorHeader)) = {}
       THEN /\ resp' = [op |-> "query", status |-> 400, require_login |-> TRUE,
                        error |-> "Invalid visitor ID"]
            /\ UNCHANGED <<visitors, query_log>>
       ELSE IF LimitReached(visitors[ParseInt(visitorHeader)])
       THEN /\ resp' = [op |-> "query", status |-> 200, allowed |-> FALSE,
                        require_login |-> TRUE, visitor_id |-> ParseInt(visitorHeader)]
            /\ UNCHANGED <<visitors, query_log>>
       ELSE /\ visitors' = IncrementVisitorQueryCount(ParseInt(visitorHeader))
            /\ query_log' = LogQuery(ParseInt(visitorHeader), NULL, address)
            /\ resp' = [op |-> "query", status |-> 200, allowed |-> TRUE,
                        authenticated |-> FALSE, visitor_id |-> ParseInt(visitorHeader),
                        queries_remaining |->
                            Max(0, FREE_QUERY_LIMIT
                                   - visitors'[ParseInt(visitorHeader)].query_count)]
    /\ UNCHANGED <<now, users, sessions, password_resets, nextToken, pending>>

\* POST /api/investigate
PostInvestigate(address, authHeader) ==
    /\ IF address = NoText
       THEN /\ resp' = [op |-> "investigate", status |-> 400]
            /\ UNCHANGED query_log
       ELSE /\ query_log' = LogQuery(NULL,
                                     IF SessionOf(authHeader) # {}
                                     THEN TheOne(SessionOf(authHeader)).user_id
                                     ELSE NULL,
                                     address)
            /\ resp' = [op |-> "investigate", status |-> 200]
    /\ UNCHANGED <<now, visitors, users, sessions, password_resets, nextToken, pending>>

ValidStatuses == {"found", "no_data", "invalid"}

\* The requester of POST /api/query/result: the session's user, else the visitor
\* header (NaN || null is null)
ResultUserId(authHeader) ==
    IF SessionOf(authHeader) # {} THEN TheOne(SessionOf(authHeader)).user_id ELSE NULL
ResultVisitorId(authHeader, visitorHeader) ==
    IF ResultUserId(authHeader) # NULL \/ visitorHeader = NoText
       \/ ParseInt(visitorHeader) = NaN
    THEN NULL
    ELSE ParseInt(visitorHeader)

\* POST /api/query/result
PostQueryResult(address, response_status, authHeader, visitorHeader) ==
    /\ IF address = NoText \/ response_status = ""
       THEN /\ resp' = [op |-> "result", status |-> 400]
            /\ UNCHANGED query_log
       ELSE IF response_status \notin ValidStatuses
       THEN /\ resp' = [op |-> "result", status |-> 400]
            /\ UNCHANGED query_log
       ELSE /\ resp' = [op |-> "result", status |-> 200]
            /\ LET latest == LatestQueries(ResultUserId(authHeader),
                                           ResultVisitorId(authHeader, visitorHeader),
                                           address)
               IN IF latest = {} THEN UNCHANGED query_log
                  ELSE \E id \in latest :
                          query_log' = UpdateQueryResult(id, response_status)
    /\ UNCHANGED <<now, visitors, users, sessions, password_resets, nextToken, pending>>

\* POST /api/auth/register, up to the await of hashPassword
RegisterBegin(email, password, visitor_id) ==
    /\ IF ~ValidateEmail(email)
       THEN /\ resp' = [op |-> "register", status |-> 400, error |-> "Invalid email format"]
            /\ UNCHANGED pending
       ELSE IF ~ValidatePassword(password).valid
       THEN /\ resp' = [op |-> "register", status |-> 400,
                        error |-> "Password does not meet requirements",
                        details |-> ValidatePassword(password).errors]
            /\ UNCHANGED pending
       ELSE IF GetUserByEmail(email) # {}
       THEN /\ resp' = [op |-> "register", status |-> 409,
                        error |-> "Email already registered"]
            /\ UNCHANGED pending
       ELSE /\ pending' = Append(pending, [op |-> "register", email |-> email,
                                           password |-> password,
                                           visitor_id |-> visitor_id])
            /\ resp' = NoResp
    /\ UNCHANGED <<now, visitors, users, sessions, password_resets, query_log, nextToken>>

\* POST /api/auth/register, from the await on: createUser, auto-verify, respond
RegisterEnd(i) ==
    /\ i \in DOMAIN pending
    /\ pending[i].op = "register"
    /\ pending' = RemoveAt(pending, i)
    /\ nextToken' = nextToken + 1
    /\ LET email == ToLowerCase(Trim(pending[i].email))
       IN IF CreateUserThrows(email, pending[i].visitor_id)
          THEN /\ resp' = [op |-> "register", status |-> 500,
                           error |-> "Failed to create account"]
               /\ UNCHANGED users
          ELSE /\ users' = VerifyUserEmailTable(
                              CreateUserTable(email, HashPassword(pending[i].password),
                                              pending[i].visitor_id, GenerateToken,
                                              GenerateVerificationExpiry(now)),
                              GenerateToken)
               /\ resp' = [op |-> "register", status |-> 201,
                           user |-> SanitizeUser(CreateUserResult(email))]
    /\ UNCHANGED <<now, visitors, sessions, password_resets, query_log>>

\* GET /api/auth/verify/:token
GetVerify(token) ==
    /\ users' = VerifyUserEmailTable(users, token)
    /\ resp' = IF VerifiableUsers(users, token) # {}
               THEN [op |-> "verify", status |-> 302]
               ELSE [op |-> "verify", status |-> 400]
    /\ UNCHANGED <<now, visitors, sessions, password_resets, query_log, nextToken, pending>>

InvalidCredentials == [op |-> "login", status |-> 401, error |-> "Invalid email or password"]

\* POST /api/auth/login, up to the await of verifyPassword
LoginBegin(email, password) ==
    /\ IF email = NoText \/ password = NoText
       THEN /\ resp' = [op |-> "login", status |-> 400]
            /\ UNCHANGED pending
       ELSE IF GetUserByEmail(ToLowerCase(Trim(email))) = {}
       THEN /\ resp' = InvalidCredentials
            /\ UNCHANGED pending
       ELSE /\ pending' = Append(pending,
                   [op |-> "login", password |-> password,
                    user |-> UserRow(TheOne(GetUserByEmail(ToLowerCase(Trim(email)))))])
            /\ resp' = NoResp
    /\ UNCHANGED <<now, visitors, users, sessions, password_resets, query_log, nextToken>>

\* POST /api/auth/login, from the await on: createSession, updateUserLastLogin
LoginEnd(i) ==
    /\ i \in DOMAIN pending
    /\ pending[i].op = "login"
    /\ pending' = RemoveAt(pending, i)
    /\ IF ~VerifyPassword(pending[i].password, pending[i].user.password_hash)
       THEN /\ resp' = InvalidCredentials
            /\ UNCHANGED <<users, sessions, nextToken>>
       ELSE /\ nextToken' = nextToken + 1
            /\ IF SessionTokenTaken(GenerateToken)
               THEN /\ resp' = [op |-> "login", status |-> 500]
                    /\ UNCHANGED <<users, sessions>>
               ELSE /\ sessions' = CreateSession(pending[i].user.id, GenerateToken,
                                                 GenerateSessionExpiry(now))
                    /\ users' = UpdateUserLastLogin(users, pending[i].user.id)
                    /\ resp' = [op |-> "login", status |-> 200, token |-> GenerateToken,
                                user |-> SanitizeUser(pending[i].user)]
    /\ UNCHANGED <<now, visitors, password_resets, query_log>>

\* POST /api/auth/logout
PostLogout(authHeader) ==
    /\ sessions' = IF ExtractBearerToken(authHeader) # NULL
                   THEN DeleteSession(ExtractBearerToken(authHeader))
                   ELSE sessions
    /\ resp' = [op |-> "logout", status |-> 200, success |-> TRUE]
    /\ UNCHANGED <<now, visitors, users, password_resets, query_log, nextToken, pending>>

\* getUserQueryCountToday: date(created_at) = date('now')
GetUserQueryCountToday(userId) ==
    Cardinality({i \in DOMAIN query_log :
                    /\ query_log[i].user_id = userId
                    /\ query_log[i].created_at[1] = SqlDatetime(now)[1]})

\* GET /api/auth/me
\* (mutant) a read that evicts the sessions it refuses
GetMeEvicting(authHeader) ==
    /\ resp' = IF ExtractBearerToken(authHeader) = NULL
               THEN [op |-> "me", status |-> 401, error |-> "No token provided"]
               ELSE IF SessionOf(authHeader) = {}
               THEN [op |-> "me", status |-> 401, error |-> "Invalid or expired session"]
               ELSE [op |-> "me", status |-> 200,
                     user |-> SanitizeUser(UserRow(TheOne(SessionOf(authHeader)).user_id)),
                     queries_today |->
                         GetUserQueryCountToday(TheOne(SessionOf(authHeader)).user_id),
                     session_expires |-> TheOne(SessionOf(authHeader)).expires_at]
    /\ sessions' = IF ExtractBearerToken(authHeader) # NULL /\ SessionOf(authHeader) = {}
                   THEN DeleteSession(ExtractBearerToken(authHeader))
                   ELSE sessions
    /\ UNCHANGED <<now, visitors, users, password_resets, query_log, nextToken, pending>>
GetMe(authHeader) ==
    /\ resp' = IF ExtractBearerToken(authHeader) = NULL
               THEN [op |-> "me", status |-> 401, error |-> "No token provided"]
               ELSE IF SessionOf(authHeader) = {}
               THEN [op |-> "me", status |-> 401, error |-> "Invalid or expired session"]
               ELSE [op |-> "me", status |-> 200,
                     user |-> SanitizeUser(UserRow(TheOne(SessionOf(authHeader)).user_id)),
                     queries_today |->
                         GetUserQueryCountToday(TheOne(SessionOf(authHeader)).user_id),
                     session_expires |-> TheOne(SessionOf(authHeader)).expires_at]
    /\ UNCHANGED <<now, visitors, users, sessions, password_resets, query_log, nextToken,
                   pending>>

\* (mutant) the WHERE user_id = ? clause is lost
GetUserQueryHistoryUnfiltered(userId) ==
    [queries |-> DOMAIN query_log, total |-> Len(query_log)]
\* getUserQueryHistory with the default page 1 and limit 50: the ids of the
\* rows selected and the total.  The log is kept shorter than one page, so
\* the page holds every matching row; the order inside the page is left out.
GetUserQueryHistory(userId) ==
    [queries |-> {i \in DOMAIN query_log : query_log[i].user_id = userId},
     total |-> Cardinality({i \in DOMAIN query_log : query_log[i].user_id = userId})]
\* getAllQueryHistory with the default page: every row, LEFT JOIN users
GetAllQueryHistory == [queries |-> DOMAIN query_log, total |-> Len(query_log)]

\* GET /api/queries/history
GetHistory(authHeader) ==
    /\ resp' = IF ExtractBearerToken(authHeader) = NULL
               THEN [op |-> "history", status |-> 401, error |-> "Authentication required"]
               ELSE IF SessionOf(authHeader) = {}
               THEN [op |-> "history", status |-> 401,
                     error |-> "Invalid or expired session"]
               ELSE [op |-> "history", status |-> 200,
                     queries |->
                         GetUserQueryHistory(TheOne(SessionOf(authHeader)).user_id).queries,
                     total |->
                         GetUserQueryHistory(TheOne(SessionOf(authHeader)).user_id).total]
    /\ UNCHANGED <<now, visitors, users, sessions, password_resets, query_log, nextToken,
                   pending>>

\* The superuser check of GET /api/queries/history/all, on the joined email
SuperuserRequired(session) == ~IsSuperuser(users[session.user_id].email)

\* GET /api/queries/history/all
GetHistoryAll(authHeader) ==
    /\ resp' = IF ExtractBearerToken(authHeader) = NULL
               THEN [op |-> "history_all", status |-> 401,
                     error |-> "Authentication required"]
               ELSE IF SessionOf(authHeader) = {}
               THEN [op |-> "history_all", status |-> 401,
                     error |-> "Invalid or expired session"]
               ELSE IF SuperuserRequired(TheOne(SessionOf(authHeader)))
               THEN [op |-> "history_all", status |-> 403,
                     error |-> "Superuser access required"]
               ELSE [op |-> "history_all", status |-> 200,
                     queries |-> GetAllQueryHistory.queries,
                     total |-> GetAllQueryHistory.total]
    /\ UNCHANGED <<now, visitors, users, sessions, password_resets, query_log, nextToken,
                   pending>>

\* POST /api/auth/forgot-password
PostForgotPassword(email) ==
    /\ IF email = NoText
       THEN /\ resp' = [op |-> "forgot", status |-> 400]
            /\ UNCHANGED <<password_resets, nextToken>>
       ELSE IF GetUserByEmail(ToLowerCase(Trim(email))) = {}
       THEN /\ resp' = [op |-> "forgot", status |-> 200, success |-> TRUE,
                        message |-> "If an account exists, a reset email has been sent"]
            /\ UNCHANGED <<password_resets, nextToken>>
       ELSE /\ nextToken' = nextToken + 1
            /\ password_resets' =
                   CreatePasswordReset(TheOne(GetUserByEmail(ToLowerCase(Trim(email)))),
                                       GenerateToken, GeneratePasswordResetExpiry(now))
            /\ resp' = [op |-> "forgot", status |-> 200, success |-> TRUE,
                        message |-> "If an account exists, a reset email has been sent"]
    /\ UNCHANGED <<now, visitors, users, sessions, query_log, pending>>

\* POST /api/auth/reset-password, up to the await of hashPassword
ResetPasswordBegin(token, password) ==
    /\ IF token = NULL \/ password = NoText
       THEN /\ resp' = [op |-> "reset", status |-> 400,
                        error |-> "Token and password are required"]
            /\ UNCHANGED pending
       ELSE IF ~ValidatePassword(password).valid
       THEN /\ resp' = [op |-> "reset", status |-> 400,
                        error |-> "Password does not meet requirements"]
            /\ UNCHANGED pending
       ELSE IF GetPasswordResetByToken(token) = {}
       THEN /\ resp' = [op |-> "reset", status |-> 400,
                        error |-> "Invalid or expired reset token", token |-> token]
            /\ UNCHANGED pending
       ELSE /\ pending' = Append(pending,
                   [op |-> "reset", token |-> token, password |-> password,
                    user_id |-> password_resets[TheOne(GetPasswordResetByToken(token))].user_id])
            /\ resp' = NoResp
    /\ UNCHANGED <<now, visitors, users, sessions, password_resets, query_log, nextToken>>

\* POST /api/auth/reset-password, from the await on: update, mark used, delete sessions
ResetPasswordEnd(i) ==
    /\ i \in DOMAIN pending
    /\ pending[i].op = "reset"
    /\ pending' = RemoveAt(pending, i)
    /\ users' = UpdateUserPassword(pending[i].user_id, HashPassword(pending[i].password))
    /\ password_resets' = MarkPasswordResetUsed(pending[i].token)
    /\ sessions' = DeleteUserSessions(sessions, pending[i].user_id)
    /\ resp' = [op |-> "reset", status |-> 200, token |-> pending[i].token,
                user_id |-> pending[i].user_id,
                sessions_deleted |->
                    Cardinality(sessions \ DeleteUserSessions(sessions, pending[i].user_id))]
    /\ UNCHANGED <<now, visitors, query_log, nextToken>>

\* The clock advances to a later hour t
Tick(t) ==
    /\ t > now
    /\ now' = t
    /\ resp' = NoResp
    /\ UNCHANGED <<visitors, users, sessions, password_resets, query_log, nextToken, pending>>

\* db.cleanExpiredSessions called on its own, at any moment
CleanExpiredSessionsCall ==
    /\ sessions' = CleanExpiredSessions
    /\ resp' = [op |-> "sweep", deleted |-> Cardinality(sessions \ CleanExpiredSessions)]
    /\ UNCHANGED <<now, visitors, users, password_resets, query_log, nextToken, pending>>

\* auth.validatePassword called on its own: the response is its return value
ValidatePasswordCall(password) ==
    /\ resp' = [op |-> "validatePassword", password |-> password,
                valid |-> ValidatePassword(password).valid,
                errors |-> ValidatePassword(password).errors]
    /\ UNCHANGED <<now, visitors, users, sessions, password_resets, query_log, nextToken,
                   pending>>

\* ------------------------------------------------------------------------
\* Requests: the values the handlers are driven with
\* ------------------------------------------------------------------------
EmailA == <<97, 64, 98, 46, 99>>                \* a@b.c
EmailAUpper == <<65, 64, 98, 46, 99>>           \* A@b.c
EmailAPadded == <<32, 97, 64, 98, 46, 99>>      \* " a@b.c"
EmailB == <<100, 64, 98, 46, 99>>               \* d@b.c
EmailUnknown == <<101, 64, 98, 46, 99>>          \* e@b.c
EmailRoot == CHOOSE e \in SUPERUSER_EMAILS : TRUE   \* the allow-listed email
EmailBad == <<97, 98>>                          \* ab
Password1 == <<80, 97, 115, 115, 119, 48, 114, 100, 33, 50, 51, 52, 53>>  \* Passw0rd!2345
Password2 == <<80, 97, 115, 115, 119, 48, 114, 100, 33, 50, 51, 52, 54>>  \* Passw0rd!2346
PasswordWeak == <<97, 98, 99>>                  \* abc
FingerprintF == <<102>>
FingerprintG == <<103>>
Address1 == <<48, 120>>                         \* 0x

\* "Bearer <token>", "Basic <token>" and a header of one part
Bearer(token) == <<<<66, 101, 97, 114, 101, 114>>, token>>
Basic(token) == <<<<66, 97, 115, 105, 99>>, token>>
NoHeader == <<>>
\* the numeral of a small row id, and a header that is no numeral
Numeral(n) == <<48 + n>>
JunkHeader == <<120>>


\* ------------------------------------------------------------------------
\* Specifications.  Every specification starts from the empty database and
\* drives a group of handlers; the bounds cut the run where a table, the
\* number of suspended handlers or the number of issued tokens would outgrow
\* them.
\* ------------------------------------------------------------------------
Bounded(maxTokens, maxLog, maxPending) ==
    /\ nextToken' <= maxTokens + 1
    /\ Len(query_log') <= maxLog
    /\ Len(pending') <= maxPending

\* The database after EmailA and EmailB registered with Password1 at hour 0:
\* two verified accounts and two tokens spent on their verification
RegisteredUser(email) ==
    [email |-> email, password_hash |-> HashPassword(Password1), email_verified |-> 1,
     verification_token |-> NULL, verification_expires |-> NoText,
     visitor_id |-> NULL, is_superuser |-> 0, created_at |-> SqlDatetime(0),
     last_login |-> NoText]
InitRegistered ==
    /\ now = 0
    /\ visitors = <<>>
    /\ users = <<RegisteredUser(EmailA), RegisteredUser(EmailB)>>
    /\ sessions = {}
    /\ password_resets = <<>>
    /\ query_log = <<>>
    /\ nextToken = 3
    /\ pending = <<>>
    /\ resp = NoResp

\* Quota: the visitor counter and the query permission decision, with one
\* account to authenticate with.  The clock stands still, so that a session
\* is invalid here only when its token is unknown or logged out.
QuotaAuthHeaders == {NoHeader} \cup {Bearer(t) : t \in 1..MaxTokens}
QuotaVisitorHeaders == {NoText, JunkHeader, Numeral(1), Numeral(2)}
QuotaStep ==
    \/ \E fp \in {FingerprintF, FingerprintG, NoText} : PostVisitor(fp)
    \/ \E h \in QuotaAuthHeaders, v \in QuotaVisitorHeaders : PostQuery(Address1, h, v)
    \/ PostQuery(NoText, NoHeader, NoText)
    \/ RegisterBegin(EmailA, Password1, NULL)
    \/ \E i \in 1..MaxPending : RegisterEnd(i)
    \/ LoginBegin(EmailA, Password1)
    \/ \E i \in 1..MaxPending : LoginEnd(i)
    \/ \E h \in QuotaAuthHeaders : PostLogout(h)
Next == QuotaStep /\ Bounded(MaxTokens, MaxLog, MaxPending)

Spec == Init /\ [][Next]_vars

\* Accounts: two registered users who log in, log out, ask for reset tokens
\* and reset their passwords.  The clock stands still.
AccountTokenRange == 3..(2 + AccountTokens)
AccountStep ==
    \/ \E e \in {EmailA, EmailB} : LoginBegin(e, Password1)
    \/ \E i \in 1..AccountPending : LoginEnd(i)
    \/ \E t \in AccountTokenRange : PostLogout(Bearer(t))
    \/ \E t \in AccountTokenRange : GetMe(Bearer(t))
    \/ \E e \in {EmailA, EmailB} : PostForgotPassword(e)
    \/ \E t \in AccountTokenRange : ResetPasswordBegin(t, Password2)
    \/ \E i \in 1..AccountPending : ResetPasswordEnd(i)
AccountNext == AccountStep /\ Bounded(2 + AccountTokens, 0, AccountPending)
SpecAccount == InitRegistered /\ [][AccountNext]_vars

\* Reset races: one user's reset tokens, presented by overlapping requests,
\* with the clock read at the issue hour, one and two hours later and the
\* next day.
ResetTokenRange == 3..(2 + ResetTokens)
ResetInstants == {PASSWORD_RESET_EXPIRY, PASSWORD_RESET_EXPIRY + 1, HOURS_PER_DAY}
ResetStep ==
    \/ PostForgotPassword(EmailA)
    \/ \E t \in ResetTokenRange, p \in {Password1, Password2} : ResetPasswordBegin(t, p)
    \/ \E i \in 1..ResetPending : ResetPasswordEnd(i)
    \/ \E t \in ResetInstants : Tick(t)
ResetNext == ResetStep /\ Bounded(2 + ResetTokens, 0, ResetPending)
SpecReset == InitRegistered /\ [][ResetNext]_vars

\* Session expiry: one user logs in and presents the token while the clock
\* moves through hours 0, 1 and 23 of days 0, 6, 7 and 8.
SessionTokenRange == 3..(2 + SessionTokens)
SessionInstants == {d * HOURS_PER_DAY + h : d \in {0, 6, 7, 8}, h \in {0, 1, 23}}
SessionStep ==
    \/ LoginBegin(EmailA, Password1)
    \/ LoginEnd(1)
    \/ \E t \in SessionTokenRange : GetMe(Bearer(t))
    \/ \E t \in SessionInstants : Tick(t)
SessionNext == SessionStep /\ Bounded(2 + SessionTokens, 0, 1)
SpecSession == InitRegistered /\ [][SessionNext]_vars

\* Registration: overlapping register requests for emails that differ in
\* letter case and surrounding white space, from the empty database.
RegisterEmails == {EmailA, EmailAUpper, EmailAPadded, EmailB, EmailBad}
RegisterPasswords == {Password1, PasswordWeak}
RegisterStep ==
    \/ \E e \in RegisterEmails, p \in RegisterPasswords : RegisterBegin(e, p, NULL)
    \/ \E i \in 1..RegisterPending : RegisterEnd(i)
RegisterNext == RegisterStep /\ Bounded(RegisterTokens, 0, RegisterPending)
SpecRegister == Init /\ [][RegisterNext]_vars

\* Verification: registrations, then verification links followed at once, a
\* day later or an hour after that.
VerifyInstants == {VERIFICATION_EXPIRY, VERIFICATION_EXPIRY + 1}
VerifyStep ==
    \/ \E e \in {EmailA, EmailB} : RegisterBegin(e, Password1, NULL)
    \/ \E i \in 1..RegisterPending : RegisterEnd(i)
    \/ \E t \in 1..RegisterTokens : GetVerify(t)
    \/ \E t \in VerifyInstants : Tick(t)
VerifyNext == VerifyStep /\ Bounded(RegisterTokens, 0, RegisterPending)
SpecVerify == Init /\ [][VerifyNext]_vars

\* Credentials: logins with known and unknown emails and right and wrong
\* passwords, logouts with every kind of header, and reset requests for a
\* known and an unknown email.  The clock stands still.
CredentialEmails == {EmailA, EmailB, EmailUnknown}
CredentialPasswords == {Password1, Password2}
LogoutHeaders ==
    {NoHeader} \cup {Bearer(t) : t \in AccountTokenRange}
               \cup {Basic(t) : t \in AccountTokenRange}
CredentialStep ==
    \/ \E e \in CredentialEmails, p \in CredentialPasswords : LoginBegin(e, p)
    \/ \E i \in 1..AccountPending : LoginEnd(i)
    \/ \E h \in LogoutHeaders : PostLogout(h)
    \/ \E e \in {EmailA, EmailUnknown} : PostForgotPassword(e)
CredentialNext == CredentialStep /\ Bounded(2 + AccountTokens, 0, AccountPending)
SpecCredential == InitRegistered /\ [][CredentialNext]_vars

\* Gates: the routes that demand a session, asked by a plain user, by a user
\* whose stored is_superuser flag is set and by the allow-listed user, with
\* the clock read at the login hour and around the seventh day.  No handler
\* writes users.is_superuser: the flag is set by the operator in the
\* database file the server opens.
GateTokens == 2
GateLog == 1
InitOperated ==
    /\ now = 0
    /\ visitors = <<>>
    /\ users = <<RegisteredUser(EmailA),
                 [RegisteredUser(EmailB) EXCEPT !.is_superuser = 1],
                 RegisteredUser(EmailRoot)>>
    /\ sessions = {}
    /\ password_resets = <<>>
    /\ query_log = <<>>
    /\ nextToken = 4
    /\ pending = <<>>
    /\ resp = NoResp
GateTokenRange == 4..(3 + GateTokens)
GateHeaders ==
    {NoHeader} \cup {Bearer(t) : t \in GateTokenRange} \cup {Basic(t) : t \in GateTokenRange}
GateInstants == {SESSION_DURATION, SESSION_DURATION + 1, SESSION_DURATION + HOURS_PER_DAY}
GateStep ==
    \/ \E e \in {EmailA, EmailB, EmailRoot} : LoginBegin(e, Password1)
    \/ LoginEnd(1)
    \/ \E t \in GateTokenRange : PostLogout(Bearer(t))
    \/ \E t \in GateTokenRange : PostQuery(Address1, Bearer(t), NoText)
    \/ \E h \in GateHeaders : GetMe(h)
    \/ \E h \in GateHeaders : GetHistory(h)
    \/ \E h \in GateHeaders : GetHistoryAll(h)
    \/ \E t \in GateInstants : Tick(t)
GateNext == GateStep /\ Bounded(3 + GateTokens, GateLog, 1)
SpecGate == InitOperated /\ [][GateNext]_vars

\* Profiles: two users register with different passwords, log in and ask
\* for their own record.
ProfileStep ==
    \/ RegisterBegin(EmailA, Password1, NULL)
    \/ RegisterBegin(EmailB, Password2, NULL)
    \/ \E i \in 1..ProfilePending : RegisterEnd(i)
    \/ \E e \in {EmailA, EmailB}, p \in {Password1, Password2} : LoginBegin(e, p)
    \/ \E i \in 1..ProfilePending : LoginEnd(i)
    \/ \E t \in 1..ProfileTokens : GetMe(Bearer(t))
ProfileNext == ProfileStep /\ Bounded(ProfileTokens, 0, ProfilePending)
SpecProfile == Init /\ [][ProfileNext]_vars

\* Visitors: anonymous clients announce themselves and spend free queries.
VisitorStep ==
    \/ \E fp \in {FingerprintF, FingerprintG, NoText} : PostVisitor(fp)
    \/ \E v \in QuotaVisitorHeaders : PostQuery(Address1, NoHeader, v)
VisitorNext == VisitorStep /\ Bounded(0, VisitorLog, 0)
SpecVisitor == Init /\ [][VisitorNext]_vars

\* Validation: well-formed and malformed requests to every route that
\* validates its body, against a database that holds users, a visitor,
\* sessions, reset tokens and log rows.
ValidationEmails == {EmailA, EmailUnknown, EmailBad, NoText}
ValidationPasswords == {Password1, PasswordWeak, NoText}
ValidationTokenRange == 3..(2 + ValidationTokens)
ValidationResetTokens == {NULL} \cup ValidationTokenRange
ValidationAddresses == {Address1, NoText}
ValidationStatuses == {"found", "bogus", ""}
ValidationStep ==
    \/ PostVisitor(FingerprintF)
    \/ \E a \in ValidationAddresses : PostQuery(a, NoHeader, Numeral(1))
    \/ \E a \in ValidationAddresses, st \in ValidationStatuses :
          PostQueryResult(a, st, NoHeader, Numeral(1))
    \/ \E e \in ValidationEmails, p \in ValidationPasswords : RegisterBegin(e, p, NULL)
    \/ RegisterEnd(1)
    \/ \E e \in ValidationEmails, p \in ValidationPasswords : LoginBegin(e, p)
    \/ LoginEnd(1)
    \/ \E e \in ValidationEmails : PostForgotPassword(e)
    \/ \E t \in ValidationResetTokens, p \in ValidationPasswords : ResetPasswordBegin(t, p)
    \/ ResetPasswordEnd(1)
ValidationNext == ValidationStep /\ Bounded(2 + ValidationTokens, ValidationLog, 1)
SpecValidation == InitRegistered /\ [][ValidationNext]_vars

\* ------------------------------------------------------------------------
\* Claims
\* ------------------------------------------------------------------------
\* What the claims mean by a bearer header that resolves to an unexpired
\* session: a stored session with that token whose expiry instant is ahead
UnexpiredSessions(authHeader) ==
    {s \in sessions :
        /\ Len(authHeader) = 2
        /\ ToLowerCase(authHeader[1]) = BEARER
        /\ s.token = authHeader[2]
        /\ InstantOf(s.expires_at) > now}

\* C1: no step lowers a visitor's query_count or removes a visitor, and a
\* POST /api/query answered allowed:true without authentication found the
\* visitor's query_count below 3.
QuotaSafety ==
    [][/\ \A i \in DOMAIN visitors :
             /\ i \in DOMAIN visitors'
             /\ visitors'[i].query_count >= visitors[i].query_count
       /\ (resp'.op = "query" /\ resp'.status = 200 /\ resp'.allowed
              /\ ~resp'.authenticated)
          => visitors[resp'.visitor_id].query_count < 3]_vars

\* C1 witness: an anonymous query was refused for a visitor at the ceiling.
QuotaRefusedAtCeiling ==
    /\ resp.op = "query" /\ resp.status = 200 /\ ~resp.allowed
    /\ visitors[resp.visitor_id].query_count >= 3

\* C2: a POST /api/query with an address whose bearer token resolves to an
\* unexpired session is answered allowed:true, authenticated:true and leaves
\* the visitors table as it was, whatever the X-Visitor-Id header.
AuthenticatedQueryUnmetered ==
    [][resp'.op = "query"
       => \A h \in QuotaAuthHeaders :
             UnexpiredSessions(h) # {}
             => \A v \in QuotaVisitorHeaders :
                   PostQuery(Address1, h, v)
                   => /\ resp'.status = 200 /\ resp'.allowed /\ resp'.authenticated
                      /\ visitors' = visitors]_vars

\* C2 witness: an authenticated query was allowed while a visitor stood at
\* the ceiling.
AuthenticatedAllowedAtCeiling ==
    /\ resp.op = "query" /\ resp.status = 200 /\ resp.allowed /\ resp.authenticated
    /\ \E i \in DOMAIN visitors : visitors[i].query_count >= 3

\* C3: a session resolves exactly while the clock is before its expiry
\* instant, seven days after the login that created it.
SessionValidUntilExpiry ==
    \A s \in sessions :
        (GetSessionByToken(s.token) # {}) <=> (now < InstantOf(s.expires_at))

\* C4: when reset-password succeeds for a user, no session that user had
\* resolves afterwards, and the sessions of every other user are kept.
ResetDestroysSessions ==
    [][(resp'.op = "reset" /\ resp'.status = 200)
       => /\ \A s \in sessions :
                s.user_id = resp'.user_id => (GetSessionByToken(s.token))' = {}
          /\ \A s \in sessions : s.user_id # resp'.user_id => s \in sessions']_vars

\* C4 witness: a reset deleted sessions of its user while another user's
\* session stayed.
ResetDeletedSomeSessions ==
    /\ resp.op = "reset" /\ resp.status = 200 /\ resp.sessions_deleted > 0
    /\ \E s \in sessions : s.user_id # resp.user_id

\* C5: a reset-password request succeeds only with a token that is unused
\* and unexpired at that moment, so no token changes a password twice or at
\* or after its expires_at.
ResetTokenSingleUse ==
    [][(resp'.op = "reset" /\ resp'.status = 200)
       => \E i \in DOMAIN password_resets :
             /\ password_resets[i].token = resp'.token
             /\ password_resets[i].used = 0
             /\ now < InstantOf(password_resets[i].expires_at)]_vars

UnusedResets(table, userId) ==
    {i \in DOMAIN table : table[i].user_id = userId /\ table[i].used = 0}

\* C6: every user has at most one unused reset record, and exactly one, the
\* new one, right after a record was issued for that user.
UnusedResetUnique ==
    [][/\ \A u \in DOMAIN users' : Cardinality(UnusedResets(password_resets', u)) <= 1
       /\ Len(password_resets') > Len(password_resets)
          => UnusedResets(password_resets',
                          password_resets'[Len(password_resets')].user_id)
             = {Len(password_resets')}]_vars

\* C6 witness: a user holds a superseded record and an unused one, and the
\* password was never reset.
ResetSuperseded ==
    \E i, j \in DOMAIN password_resets :
        /\ i < j
        /\ password_resets[i].user_id = password_resets[j].user_id
        /\ password_resets[i].used = 1
        /\ password_resets[j].used = 0
        /\ users[password_resets[i].user_id].password_hash = HashPassword(Password1)

\* a reset token after which a newer one was issued for the same user, and
\* which has not reached its expiry instant
SupersededTokens ==
    {password_resets[i].token : i \in
        {i \in DOMAIN password_resets :
            /\ now < InstantOf(password_resets[i].expires_at)
            /\ \E j \in DOMAIN password_resets :
                  j > i /\ password_resets[j].user_id = password_resets[i].user_id}}

\* C7: a reset-password request presenting a superseded token is answered
\* 400 and changes no user, session or reset record, so the newer token
\* stays as consumable as it was.
SupersededTokenRejected ==
    [][\A t \in AccountTokenRange :
          (t \in SupersededTokens /\ ResetPasswordBegin(t, Password2))
          => /\ resp'.op = "reset" /\ resp'.status = 400
             /\ UNCHANGED <<users, sessions, password_resets, pending>>
             /\ \A t2 \in AccountTokenRange :
                   (GetPasswordResetByToken(t2))' = GetPasswordResetByToken(t2)]_vars

\* C7 witness: a superseded, unexpired token was presented and refused while
\* the newer token of the same user is still consumable.
SupersededTokenRefused ==
    /\ resp.op = "reset" /\ resp.status = 400
    /\ resp.error = "Invalid or expired reset token"
    /\ resp.token \in SupersededTokens
    /\ \E j \in DOMAIN password_resets :
          /\ GetPasswordResetByToken(password_resets[j].token) = {j}
          /\ \E i \in DOMAIN password_resets :
                /\ i < j /\ password_resets[i].token = resp.token
                /\ password_resets[i].user_id = password_resets[j].user_id

\* tokens that were issued and that no stored session carries
AbsentTokens == {t \in 1..(nextToken - 1) : \A s \in sessions : s.token # t}

\* C8: a token that no stored session carries, a deleted session's among
\* them, resolves to no session after any step.
SessionDeletionIrreversible ==
    [][\A t \in AbsentTokens : (GetSessionByToken(t))' = {}]_vars

\* C8 witness: a session token was deleted and its user logged in again,
\* under a different token.
DeletedThenLoggedInAgain ==
    \E t \in AbsentTokens :
        /\ t \in AccountTokenRange
        /\ \A i \in DOMAIN password_resets : password_resets[i].token # t
        /\ \E s \in sessions : s.token > t /\ GetSessionByToken(s.token) = {s}

\* the emails of the stored users that a register request's email equals
\* once trimmed and compared without regard to case
RegisteredAs(email) ==
    {i \in DOMAIN users : ToLowerCase(Trim(email)) = ToLowerCase(Trim(users[i].email))}

\* C9: a register request with a valid password whose email is already
\* registered is answered 409, whether the answer comes before or after the
\* password is hashed, and adds no user.
DuplicateRegistrationConflicts ==
    [][/\ \A e \in RegisterEmails, p \in RegisterPasswords :
             (RegisterBegin(e, p, NULL) /\ resp'.op = "register"
                 /\ ValidatePassword(p).valid /\ RegisteredAs(e) # {})
             => resp'.status = 409 /\ users' = users
       /\ \A i \in DOMAIN pending :
             (RegisterEnd(i) /\ RegisteredAs(pending[i].email) # {})
             => resp'.status = 409 /\ users' = users]_vars

\* C10: no two user records have emails that are equal without regard to
\* letter case.
EmailsUniqueNoCase ==
    \A i, j \in DOMAIN users : i # j => ~NoCaseEqual(users[i].email, users[j].email)

\* C10 witness: two accounts exist and an overlapping registration of a
\* stored email was stopped by the store.
DuplicateInsertStopped ==
    /\ resp.op = "register" /\ resp.status = 500
    /\ Len(users) = 2

\* the row a step appended to query_log, when it appended exactly one
LoggedOne ==
    /\ Len(query_log') = Len(query_log) + 1
    /\ SubSeq(query_log', 1, Len(query_log)) = query_log

\* C11 (as stated): every POST /api/query answered 200, allowed or refused,
\* appends exactly one query_log row carrying the user id or the visitor id.
QueryAlwaysLogged ==
    [][(resp'.op = "query" /\ resp'.status = 200)
       => /\ LoggedOne
          /\ (query_log'[Len(query_log')].user_id = NULL)
             # (query_log'[Len(query_log')].visitor_id = NULL)]_vars

\* C11 (amended): a POST /api/query answered allowed:true appends exactly one
\* query_log row, with the session's user id and no visitor id when
\* authenticated and with the visitor id and no user id when anonymous; a
\* POST /api/query answered otherwise appends none.
QueryLoggedWhenAllowed ==
    [][resp'.op = "query"
       => IF resp'.status = 200 /\ resp'.allowed
          THEN /\ LoggedOne
               /\ LET row == query_log'[Len(query_log')]
                  IN IF resp'.authenticated
                     THEN /\ row.visitor_id = NULL
                          /\ \E s \in sessions : s.user_id = row.user_id
                     ELSE /\ row.user_id = NULL
                          /\ row.visitor_id = resp'.visitor_id
          ELSE query_log' = query_log]_vars

\* C11 witness: an authenticated query was logged after an anonymous one.
BothKindsLogged ==
    /\ resp.op = "query" /\ resp.status = 200 /\ resp.allowed /\ resp.authenticated
    /\ query_log[Len(query_log)].user_id # NULL
    /\ \E i \in DOMAIN query_log : query_log[i].visitor_id # NULL

\* the X-Visitor-Id headers that name a stored visitor
ResolvingVisitorHeaders == {Numeral(i) : i \in DOMAIN visitors}

\* C12: an anonymous POST /api/query for a visitor whose query_count is at
\* least 3 is answered 200, allowed:false, require_login:true and changes no
\* table.
RefusalChangesNothing ==
    [][resp'.op = "query"
       => \A h \in QuotaAuthHeaders, i \in DOMAIN visitors :
             (/\ UnexpiredSessions(h) = {}
              /\ visitors[i].query_count >= 3
              /\ PostQuery(Address1, h, Numeral(i)))
             => /\ resp'.status = 200 /\ ~resp'.allowed /\ resp'.require_login
                /\ UNCHANGED tables]_vars

\* C12 witness: a visitor was refused and the log holds only the three
\* allowed queries of that visitor.
RefusedWithoutTrace ==
    /\ resp.op = "query" /\ resp.status = 200 /\ ~resp.allowed /\ resp.require_login
    /\ visitors[resp.visitor_id].query_count = 3
    /\ Cardinality({i \in DOMAIN query_log :
                      query_log[i].visitor_id = resp.visitor_id}) = 3

\* C13: a new visitor is reported with query_count 0 and queries_remaining 3;
\* an allowed anonymous query raises that visitor's query_count by exactly 1,
\* leaves the other visitors alone and reports queries_remaining = 3 minus
\* the new count, so 2, 1, 0 in turn; a refusal happens only at count 3.
FreeQueriesCountDown ==
    [][/\ (resp'.op = "visitor" /\ resp'.status = 200 /\ Len(visitors') > Len(visitors))
          => /\ resp'.query_count = 0 /\ resp'.queries_remaining = 3
             /\ visitors'[resp'.visitor_id].query_count = 0
       /\ (resp'.op = "query" /\ resp'.status = 200 /\ resp'.allowed
              /\ ~resp'.authenticated)
          => /\ visitors'[resp'.visitor_id].query_count
                   = visitors[resp'.visitor_id].query_count + 1
             /\ \A i \in DOMAIN visitors :
                   i # resp'.visitor_id => visitors'[i] = visitors[i]
             /\ resp'.queries_remaining = 3 - visitors'[resp'.visitor_id].query_count
             /\ resp'.queries_remaining \in 0..2
       /\ (resp'.op = "query" /\ resp'.status = 200 /\ ~resp'.allowed)
          => visitors[resp'.visitor_id].query_count = 3]_vars

\* C13 witness: the third free query was allowed with nothing remaining.
LastFreeQueryAllowed ==
    /\ resp.op = "query" /\ resp.status = 200 /\ resp.allowed /\ ~resp.authenticated
    /\ resp.queries_remaining = 0
    /\ visitors[resp.visitor_id].query_count = 3

\* C14: a POST /api/query without an unexpired session whose X-Visitor-Id is
\* absent or names no stored visitor is refused with require_login and
\* without allowed:true, and changes no visitor and no log row.
UnknownVisitorRejected ==
    [][resp'.op = "query"
       => \A h \in QuotaAuthHeaders, v \in QuotaVisitorHeaders \ ResolvingVisitorHeaders :
             (UnexpiredSessions(h) = {} /\ PostQuery(Address1, h, v))
             => /\ resp'.status = 400 /\ resp'.require_login
                /\ "allowed" \notin DOMAIN resp'
                /\ UNCHANGED tables]_vars

\* C14 witness: an id that names no visitor was refused while a visitor with
\* free queries left exists.
UnknownVisitorRefused ==
    /\ resp.op = "query" /\ resp.status = 400
    /\ resp.error = "Invalid visitor ID" /\ resp.require_login
    /\ \E i \in DOMAIN visitors : visitors[i].query_count < 3

\* C15: the token register issued is accepted by GET /api/auth/verify/:token
\* on its first use: a verify request that follows the 201 response with the
\* token just issued is answered with the redirect, and it leaves the user
\* verified with the token cleared.
VerifyTokenAcceptedOnce ==
    [][\A t \in 1..RegisterTokens :
          (/\ resp.op = "register" /\ resp.status = 201
           /\ t = nextToken - 1
           /\ GetVerify(t))
          => /\ resp'.status = 302
             /\ users'[resp.user.id].email_verified = 1
             /\ users'[resp.user.id].verification_token = NULL]_vars

\* C16: POST /api/auth/logout always answers success:true; with a bearer
\* token it removes exactly the session carrying that token, so that a
\* second logout with the same token would change nothing more; with a
\* missing or malformed header, or a token no session carries, it changes no
\* table.
LogoutIdempotent ==
    [][resp'.op = "logout"
       => /\ resp'.status = 200 /\ resp'.success
          /\ UNCHANGED <<visitors, users, password_resets, query_log>>
          /\ \A t \in AccountTokenRange :
                PostLogout(Bearer(t))
                => /\ sessions' = {s \in sessions : s.token # t}
                   /\ (DeleteSession(t))' = sessions'
                   /\ (\A s \in sessions : s.token # t) => sessions' = sessions
          /\ \A h \in LogoutHeaders \ {Bearer(t) : t \in AccountTokenRange} :
                PostLogout(h) => sessions' = sessions]_vars

\* C16 witness: of three sessions one was logged out, and a session of its
\* owner and a session of the other user remain.
LoggedOutOneOfThree ==
    /\ resp.op = "logout"
    /\ nextToken = 6 /\ password_resets = <<>>
    /\ Cardinality(sessions) = 2
    /\ \E s1, s2 \in sessions : s1.user_id # s2.user_id

\* C17: forgot-password with a non-empty email is answered with one and the
\* same success response whether or not the email is registered, and for an
\* unregistered email nothing is stored and no token is drawn.
ForgotPasswordUniform ==
    [][resp'.op = "forgot"
       => \A e \in {EmailA, EmailUnknown} :
             PostForgotPassword(e)
             => /\ resp' = [op |-> "forgot", status |-> 200, success |-> TRUE,
                            message |-> "If an account exists, a reset email has been sent"]
                /\ RegisteredAs(e) = {} => UNCHANGED <<tables, nextToken, pending>>]_vars

\* C17 witness: a forgot-password request was answered and no reset record
\* exists, so the email was not registered.
ForgotUnknownAnswered ==
    /\ resp.op = "forgot" /\ resp.status = 200 /\ resp.success
    /\ password_resets = <<>>

\* C18: a login for an unregistered email and a login for a registered email
\* with a password that is not the user's are both answered 401 with the same
\* body, and neither adds a session nor touches a user record.
FailedLoginUniform ==
    [][resp'.op = "login"
       => /\ \A e \in CredentialEmails, p \in CredentialPasswords :
                (RegisteredAs(e) = {} /\ LoginBegin(e, p))
                => /\ resp' = [op |-> "login", status |-> 401,
                               error |-> "Invalid email or password"]
                   /\ UNCHANGED <<sessions, users, pending>>
          /\ \A i \in DOMAIN pending :
                (/\ pending[i].op = "login"
                 /\ users[pending[i].user.id].password_hash
                        # HashPassword(pending[i].password)
                 /\ LoginEnd(i))
                => /\ resp' = [op |-> "login", status |-> 401,
                               error |-> "Invalid email or password"]
                   /\ UNCHANGED <<sessions, users>>]_vars

\* C18 witness: a login was refused and no session and no last_login exists.
LoginRefusedWithoutTrace ==
    /\ resp.op = "login" /\ resp.status = 401
    /\ pending = <<>> /\ sessions = {}
    /\ \A i \in DOMAIN users : users[i].last_login = NoText

\* the user owning the unexpired session a header presents
OwnerOf(authHeader) == (CHOOSE s \in UnexpiredSessions(authHeader) : TRUE).user_id

\* C19: /api/auth/me, /api/queries/history and /api/queries/history/all
\* answer 401 when the header presents no stored session whose expiry
\* instant is ahead, and otherwise answer only with the data of the session's
\* owner.
SessionGatesHold ==
    [][resp'.op \in {"me", "history", "history_all"}
       => \A h \in GateHeaders :
             (GetMe(h) \/ GetHistory(h) \/ GetHistoryAll(h))
             => IF UnexpiredSessions(h) = {}
                THEN resp'.status = 401
                ELSE /\ resp'.status \in {200, 403}
                     /\ resp'.op = "me" => resp'.user.id = OwnerOf(h)
                     /\ resp'.op = "history"
                        => \A i \in resp'.queries : query_log[i].user_id = OwnerOf(h)]_vars

\* C20: for an authenticated user /api/queries/history/all answers 200 when
\* the stored is_superuser flag is set or the email is on the allow-list and
\* 403 otherwise, and the user view of /api/auth/me reports is_superuser
\* likewise.
SuperuserIsFlagOrListed ==
    [][resp'.op \in {"me", "history_all"}
       => \A h \in GateHeaders :
             (UnexpiredSessions(h) # {} /\ (GetMe(h) \/ GetHistoryAll(h)))
             => LET u == users[OwnerOf(h)]
                    super == u.is_superuser = 1 \/ ToLowerCase(u.email) \in SUPERUSER_EMAILS
                IN /\ resp'.op = "history_all"
                      => resp'.status = (IF super THEN 200 ELSE 403)
                   /\ resp'.op = "me" => resp'.user.is_superuser = super]_vars

\* the user objects that differ from a stored row only in its secrets
SecretVariants(row) ==
    {[row EXCEPT !.password_hash = HashPassword(p),
                 !.verification_token = t,
                 !.verification_expires = x] :
        p \in {Password1, Password2}, t \in 0..ProfileTokens,
        x \in {NoText, GenerateVerificationExpiry(now)}}

\* C21: the user object of every register, login and /api/auth/me response
\* has exactly the fields id, email, email_verified, tier, is_superuser,
\* created_at and last_login, and is the same whatever the password hash,
\* verification token and verification expiry of the stored record are.
UserViewsSanitized ==
    (resp.op \in {"register", "login", "me"} /\ "user" \in DOMAIN resp)
    => /\ DOMAIN resp.user = {"id", "email", "email_verified", "tier", "is_superuser",
                              "created_at", "last_login"}
       /\ DOMAIN resp \subseteq {"op", "status", "user", "token", "queries_today",
                                 "session_expires"}
       /\ \A v \in SecretVariants(UserRow(resp.user.id)) :
             SanitizeUser(v) = SanitizeUser(UserRow(resp.user.id))

\* C21 witness: /api/auth/me answered for one of two users whose password
\* hashes differ.
ProfileReturned ==
    /\ resp.op = "me" /\ resp.status = 200
    /\ Len(users) = 2 /\ users[1].password_hash # users[2].password_hash

\* C22: POST /api/visitor with a stored fingerprint adds no visitor and
\* leaves every visitor's id and query_count as they were; with a new
\* fingerprint it adds exactly one visitor with query_count 0.  After every
\* step no two visitors share a fingerprint and no visitor is gone.
VisitorUpsertKeepsCount ==
    [][/\ \A i \in DOMAIN visitors :
             i \in DOMAIN visitors' /\ visitors'[i].fingerprint = visitors[i].fingerprint
       /\ \A i, j \in DOMAIN visitors' :
             visitors'[i].fingerprint = visitors'[j].fingerprint => i = j
       /\ resp'.op = "visitor"
          => \A fp \in {FingerprintF, FingerprintG} :
                PostVisitor(fp)
                => IF \E i \in DOMAIN visitors : visitors[i].fingerprint = fp
                   THEN /\ visitors' = visitors
                        /\ visitors[resp'.visitor_id].fingerprint = fp
                        /\ resp'.query_count = visitors[resp'.visitor_id].query_count
                   ELSE /\ Len(visitors') = Len(visitors) + 1
                        /\ visitors'[Len(visitors')] =
                               [fingerprint |-> fp, query_count |-> 0]
                        /\ resp'.visitor_id = Len(visitors')]_vars

\* C22 witness: a visitor who has spent queries announced itself again while
\* another visitor exists.
VisitorSeenAgain ==
    /\ resp.op = "visitor" /\ resp.status = 200 /\ resp.query_count > 0
    /\ Len(visitors) = 2
    /\ visitors[resp.visitor_id].query_count = resp.query_count

\* what a rejected request leaves behind: the 400 and nothing else
RejectedUntouched ==
    /\ UNCHANGED <<tables, pending, nextToken>>
    /\ resp'.status = 400

\* the passwords that break a rule of the password policy, stated on the text
WeakPasswords ==
    {p \in ValidationPasswords :
        \/ Len(p) < 12
        \/ \A i \in DOMAIN p : p[i] \notin Letters
        \/ \A i \in DOMAIN p : p[i] \notin Digits
        \/ \A i \in DOMAIN p : p[i] \notin Symbols}

\* C23: a register request with an invalid email or password, a login or
\* forgot-password request with a missing field, a reset-password request
\* with a missing token or a weak password, a query without an address and a
\* query result without an address or with a status outside found, no_data
\* and invalid are answered 400 and change no table, start no continuation
\* and draw no token.
InvalidInputRejected ==
    [][/\ \A e \in ValidationEmails, p \in ValidationPasswords :
             /\ (RegisterBegin(e, p, NULL) /\ (e \in {EmailBad, NoText} \/ p \in WeakPasswords))
                => RejectedUntouched
             /\ (LoginBegin(e, p) /\ (e = NoText \/ p = NoText)) => RejectedUntouched
       /\ PostForgotPassword(NoText) => RejectedUntouched
       /\ \A t \in ValidationResetTokens, p \in ValidationPasswords :
             (ResetPasswordBegin(t, p) /\ (t = NULL \/ p \in WeakPasswords))
             => RejectedUntouched
       /\ PostQuery(NoText, NoHeader, Numeral(1)) => RejectedUntouched
       /\ \A a \in ValidationAddresses, st \in ValidationStatuses :
             (/\ PostQueryResult(a, st, NoHeader, Numeral(1))
              /\ (a = NoText \/ st \notin {"found", "no_data", "invalid"}))
             => RejectedUntouched]_vars

\* C23 witness: a request was rejected while users, a visitor, a log row and
\* a session or a reset record were stored.
RejectedOnFullStore ==
    /\ resp.op \in {"register", "login", "forgot", "reset", "query", "result"}
    /\ resp.status = 400
    /\ visitors # <<>> /\ query_log # <<>>
    /\ (sessions # {} \/ password_resets # <<>>)

\* the reset records a token names that are unused and not past their expiry
\* instant
UsableResets(token) ==
    {i \in DOMAIN password_resets :
        /\ password_resets[i].token = token
        /\ password_resets[i].used = 0
        /\ now <= InstantOf(password_resets[i].expires_at)}

\* C24: a reset-password request whose token is unknown, already used or
\* expired is answered 400 and changes no user, session or reset record.
BadResetTokenRejected ==
    [][\A t \in ResetTokenRange, p \in {Password1, Password2} :
          (ResetPasswordBegin(t, p) /\ UsableResets(t) = {})
          => /\ UNCHANGED <<users, sessions, password_resets, pending>>
             /\ resp'.status = 400]_vars

\* Password rules: validatePassword on texts of every length up to
\* MaxPasswordLen that hold any combination of a letter, a digit and a symbol,
\* at the start or at the end, among filler characters of no class.
MaxPasswordLen == 14
FromStart(n, k) == k
FromEnd(n, k) == n + 1 - k
PasswordOf(n, classes, at(_, _)) ==
    [i \in 1..n |-> IF i = at(n, 1) /\ "letter" \in classes THEN 97
                    ELSE IF i = at(n, 2) /\ "digit" \in classes THEN 48
                    ELSE IF i = at(n, 3) /\ "symbol" \in classes THEN 33
                    ELSE SPACE]
PasswordInputs ==
    {PasswordOf(n, c, FromStart) :
        n \in 0..MaxPasswordLen, c \in SUBSET {"letter", "digit", "symbol"}}
    \cup {PasswordOf(n, c, FromEnd) :
        n \in 0..MaxPasswordLen, c \in SUBSET {"letter", "digit", "symbol"}}
PasswordNext == \E p \in PasswordInputs : ValidatePasswordCall(p)
SpecPassword == Init /\ [][PasswordNext]_vars

\* the text with every character of a class replaced by one of no class
Without(password, class) ==
    [i \in DOMAIN password |-> IF password[i] \in class THEN SPACE ELSE password[i]]
Count(errors, msg) == Cardinality({i \in DOMAIN errors : errors[i] = msg})

\* C25: validatePassword answers valid exactly when the text has at least
\* twelve characters, a letter, a digit and a symbol; each violated rule
\* contributes exactly its own message and nothing else does; taking any one
\* property away from a valid password makes it invalid; the empty text
\* yields the single message 'Password is required'.
PasswordRulesIndependent ==
    resp.op = "validatePassword" =>
        LET p == resp.password
            long == Len(p) >= 12
            letter == \E i \in DOMAIN p : p[i] \in (65..90) \cup (97..122)
            digit == \E i \in DOMAIN p : p[i] \in 48..57
            symbol == \E i \in DOMAIN p : p[i] \in Symbols
        IN  /\ resp.valid <=> (long /\ letter /\ digit /\ symbol)
            /\ resp.valid <=> (resp.errors = <<>>)
            /\ p = <<>> => resp.errors = <<MsgRequired>>
            /\ p # <<>> =>
                  /\ Count(resp.errors, MsgLength) = (IF long THEN 0 ELSE 1)
                  /\ Count(resp.errors, MsgLetter) = (IF letter THEN 0 ELSE 1)
                  /\ Count(resp.errors, MsgNumber) = (IF digit THEN 0 ELSE 1)
                  /\ Count(resp.errors, MsgSymbol) = (IF symbol THEN 0 ELSE 1)
                  /\ \A i \in DOMAIN resp.errors :
                        resp.errors[i] \in {MsgLength, MsgLetter, MsgNumber, MsgSymbol}
            /\ resp.valid =>
                  /\ ~ValidatePassword(SubSeq(p, 1, 11)).valid
                  /\ ~ValidatePassword(Without(p, Letters)).valid
                  /\ ~ValidatePassword(Without(p, Digits)).valid
                  /\ ~ValidatePassword(Without(p, Symbols)).valid

\* C25 witness: a text of twelve characters or more that broke two rules got
\* two messages.
TwoRulesBroken ==
    /\ resp.op = "validatePassword"
    /\ Len(resp.password) >= 12
    /\ Len(resp.errors) = 2

\* Reads and sweeps: a plain user and a listed superuser log in, query and
\* read back while the clock passes the expiry of their sessions and expired
\* sessions are swept at any moment.
SweepTokens == 2
SweepLog == 1
SweepTokenRange == 4..(3 + SweepTokens)
SweepInstants == {SESSION_DURATION, SESSION_DURATION + 1, SESSION_DURATION + HOURS_PER_DAY}
SweepStep ==
    \/ \E e \in {EmailA, EmailRoot} : LoginBegin(e, Password1)
    \/ LoginEnd(1)
    \/ \E t \in SweepTokenRange : PostQuery(Address1, Bearer(t), NoText)
    \/ \E t \in SweepTokenRange : GetMe(Bearer(t))
    \/ \E t \in SweepTokenRange : GetHistory(Bearer(t))
    \/ \E t \in SweepTokenRange : GetHistoryAll(Bearer(t))
    \/ CleanExpiredSessionsCall
    \/ \E t \in SweepInstants : Tick(t)
SweepNext == SweepStep /\ Bounded(3 + SweepTokens, SweepLog, 1)
SpecSweep == InitOperated /\ [][SweepNext]_vars

\* C26: validating a session is a pure read: /me, /history and /history/all
\* change no table whatever they answer, so a session they refuse as expired
\* stays stored as it was.
SessionReadsPure ==
    [][resp'.op \in {"me", "history", "history_all"}
       => UNCHANGED <<visitors, users, sessions, password_resets, query_log>>]_vars

\* C26 witness: a read refused a session as expired while every token that
\* can be presented was still stored.
ExpiredRefusedButKept ==
    /\ resp.op \in {"me", "history", "history_all"}
    /\ resp.status = 401
    /\ resp.error = "Invalid or expired session"
    /\ \A t \in SweepTokenRange : \E s \in sessions : s.token = t

\* C27: a sweep deletes only sessions getSessionByToken refuses at that
\* instant, so every token resolves after it exactly as before and no other
\* table changes; a second sweep, or one with nothing expired, deletes nothing.
SweepUnobservable ==
    [][resp'.op = "sweep"
       => /\ UNCHANGED <<visitors, users, password_resets, query_log>>
          /\ sessions' \subseteq sessions
          /\ \A s \in sessions \ sessions' : GetSessionByToken(s.token) = {}
          /\ \A t \in SweepTokenRange : GetSessionByToken(t)' = GetSessionByToken(t)
          /\ CleanExpiredSessions' = sessions'
          /\ (\A s \in sessions : GetSessionByToken(s.token) # {}) => sessions' = sessions]_vars

\* C27 witness: a sweep deleted an expired session and kept a live one.
SweptSomeKeptSome ==
    /\ resp.op = "sweep"
    /\ resp.deleted > 0
    /\ sessions # {}

\* C28: deleteSession(token) and deleteUserSessions(userId) commute.  On every
\* step that deleted a user's sessions, deleting any token afterwards leaves
\* the table that deleting the token first and the user's sessions second
\* leaves, and the token is in neither.
SessionDeletesCommute ==
    [][(resp'.op = "reset" /\ resp'.status = 200)
       => /\ sessions' = DeleteUserSessions(sessions, resp'.user_id)
          /\ \A t \in AccountTokenRange :
                /\ DeleteSession(t)' = DeleteUserSessions(DeleteSession(t), resp'.user_id)
                /\ \A s \in DeleteSession(t)' : s.token # t
                /\ \A s \in DeleteUserSessions(DeleteSession(t), resp'.user_id) :
                      s.token # t]_vars

\* C28 witness: a user's sessions were deleted while another user's session
\* still resolves and can be deleted next.
TwoDeletedOneLeft ==
    /\ resp.op = "reset" /\ resp.status = 200
    /\ resp.sessions_deleted >= 1
    /\ \E s \in sessions : GetSessionByToken(s.token) # {} /\ DeleteSession(s.token) # sessions

\* the calls of incrementVisitorQueryCount made for a visitor so far: one per
\* log row of an anonymous query of that visitor
IncrementCalls(visitorId) ==
    Cardinality({i \in DOMAIN query_log : query_log[i].visitor_id = visitorId})

\* C29: incrementVisitorQueryCount adds exactly one per call however the calls
\* for different visitors interleave: every counter equals its initial value,
\* zero, plus the number of calls made for its visitor.
CounterIsCallCount ==
    \A v \in DOMAIN visitors : visitors[v].query_count = 0 + IncrementCalls(v)

\* C29 witness: the calls for two visitors interleaved, and one visitor was
\* counted three times.
InterleavedIncrements ==
    /\ \E i, j, k \in DOMAIN query_log :
          /\ i < j /\ j < k
          /\ query_log[i].visitor_id = query_log[k].visitor_id
          /\ query_log[i].visitor_id # query_log[j].visitor_id
    /\ \E v \in DOMAIN visitors : visitors[v].query_count = 3

\* C30: a successful login adds exactly one session, owned by the user it
\* answers for and carrying a token no stored session has, and leaves every
\* stored session as it was; no other step adds a session.
LoginCreatesOneSession ==
    [][/\ (resp'.op = "login" /\ resp'.status = 200)
          => /\ sessions \subseteq sessions'
             /\ Cardinality(sessions' \ sessions) = 1
             /\ \A s \in sessions' \ sessions :
                   /\ s.user_id = resp'.user.id
                   /\ s.token = resp'.token
                   /\ \A o \in sessions : o.token # s.token
                   /\ \E i \in DOMAIN pending :
                         /\ pending[i].op = "login"
                         /\ pending[i].user.id = s.user_id
                         /\ VerifyPassword(pending[i].password,
                                           pending[i].user.password_hash)
       /\ ~(sessions' \subseteq sessions)
          => (resp'.op = "login" /\ resp'.status = 200)]_vars

\* C30 witness: a login succeeded for a user who already had a session, while
\* another user had one too.
LoggedInBesideOthers ==
    /\ resp.op = "login" /\ resp.status = 200
    /\ \E s \in sessions : s.user_id = resp.user.id /\ s.token # resp.token
    /\ \E s \in sessions : s.user_id # resp.user.id

\* The query log: a visitor, a plain user and a listed superuser, the two
\* users logged in at hour 0, query two addresses with and without a session,
\* report results and read their history, within one hour and the next.
LogRows == 2
Address2 == <<49, 120>>                         \* 1x
InitLoggedIn ==
    /\ now = 0
    /\ visitors = <<[fingerprint |-> FingerprintF, query_count |-> 0]>>
    /\ users = <<[RegisteredUser(EmailA) EXCEPT !.last_login = SqlDatetime(0)],
                 [RegisteredUser(EmailB) EXCEPT !.is_superuser = 1],
                 [RegisteredUser(EmailRoot) EXCEPT !.last_login = SqlDatetime(0)]>>
    /\ sessions = {[user_id |-> 1, token |-> 4, expires_at |-> GenerateSessionExpiry(0)],
                   [user_id |-> 3, token |-> 5, expires_at |-> GenerateSessionExpiry(0)]}
    /\ password_resets = <<>>
    /\ query_log = <<>>
    /\ nextToken = 6
    /\ pending = <<>>
    /\ resp = NoResp
LogBearers == {Bearer(4), Bearer(5)}
LogAuthHeaders == {NoHeader} \cup LogBearers
LogVisitorHeaders == {NoText, Numeral(1)}
LogAddresses == {Address1, Address2}
LogStep ==
    \/ \E a \in LogAddresses, h \in LogAuthHeaders, v \in LogVisitorHeaders :
          PostQuery(a, h, v)
    \/ \E h \in LogAuthHeaders : PostInvestigate(Address1, h)
    \/ \E a \in LogAddresses, h \in LogAuthHeaders, v \in LogVisitorHeaders :
          PostQueryResult(a, "found", h, v)
    \/ \E h \in LogBearers : GetHistory(h)
    \/ \E h \in LogBearers : GetHistoryAll(h)
    \/ Tick(1)
LogNext == LogStep /\ Bounded(5, LogRows, 0)
SpecLog == InitLoggedIn /\ [][LogNext]_vars

\* C31: no log entry has both a visitor id and a user id.  An entry written
\* by an authenticated call carries only the user id, one written by an
\* anonymous /api/query only the visitor id, and one written by an
\* unauthenticated /api/investigate neither.
RequesterExclusive ==
    [][/\ \A i \in DOMAIN query_log' :
             ~(query_log'[i].visitor_id # NULL /\ query_log'[i].user_id # NULL)
       /\ Len(query_log') > Len(query_log)
          => LET row == query_log'[Len(query_log')]
             IN /\ resp'.op \in {"query", "investigate"}
                /\ (resp'.op = "query" /\ resp'.authenticated)
                   => (row.user_id # NULL /\ row.visitor_id = NULL)
                /\ (resp'.op = "query" /\ ~resp'.authenticated)
                   => (row.visitor_id # NULL /\ row.user_id = NULL)
                /\ \A h \in LogAuthHeaders :
                      PostInvestigate(Address1, h)
                      => /\ row.visitor_id = NULL
                         /\ row.user_id = (IF SessionOf(h) = {} THEN NULL
                                           ELSE TheOne(SessionOf(h)).user_id)]_vars

\* C31 witness: an unauthenticated /api/investigate entry was written after
\* an entry of a visitor or a user.
ThreeKindsOfEntry ==
    /\ resp.op = "investigate" /\ resp.status = 200
    /\ Len(query_log) = 2
    /\ query_log[2].visitor_id = NULL /\ query_log[2].user_id = NULL
    /\ (query_log[1].visitor_id # NULL \/ query_log[1].user_id # NULL)

\* C32: the query log is append-only apart from the status backfill: no step
\* removes an entry or changes a field of a stored entry other than
\* response_status, and only POST /api/query/result changes that one.
LogAppendOnly ==
    [][/\ Len(query_log') >= Len(query_log)
       /\ \A i \in DOMAIN query_log :
             /\ [query_log'[i] EXCEPT !.response_status = query_log[i].response_status]
                = query_log[i]
             /\ query_log'[i].response_status # query_log[i].response_status
                => resp'.op = "result"]_vars

\* C32 witness: a result was backfilled into the first of two entries, once a
\* later hour had come.
BackfilledAmongTwo ==
    /\ resp.op = "result" /\ resp.status = 200
    /\ Len(query_log) = 2
    /\ query_log[1].response_status = "found"
    /\ query_log[2].response_status = "success"
    /\ now > 0

\* C33: POST /api/query/result sets the response_status of exactly the most
\* recently inserted entry whose address and requester match, and changes no
\* other entry; with no matching entry, or a requester with neither a session
\* nor a visitor id, it changes nothing.
ResultUpdatesLatest ==
    [][resp'.op = "result"
       => \A a \in LogAddresses, h \in LogAuthHeaders, v \in LogVisitorHeaders :
             PostQueryResult(a, "found", h, v)
             => LET matching ==
                        MatchingQueries(ResultUserId(h), ResultVisitorId(h, v), a)
                IN IF matching = {}
                   THEN query_log' = query_log
                   ELSE query_log' =
                            UpdateQueryResult(
                                CHOOSE i \in matching : \A j \in matching : j <= i,
                                "found")]_vars

\* Stale tokens: the visitor queries with no token, with a stored token and
\* with one never issued, while the stored session is ended by logout or the
\* clock passes its expiry by an hour and by a day.
StaleRows == 4
StaleInstants == {SESSION_DURATION + 1, SESSION_DURATION + HOURS_PER_DAY}
StaleStep ==
    \/ PostLogout(Bearer(4))
    \/ \E h \in {NoHeader, Bearer(4), Bearer(6)}, v \in LogVisitorHeaders :
          PostQuery(Address1, h, v)
    \/ \E t \in StaleInstants : Tick(t)
StaleNext == StaleStep /\ Bounded(5, StaleRows, 0)
SpecStaleToken == InitLoggedIn /\ [][StaleNext]_vars

\* the stored sessions a token names that are before their expiry instant
LiveSessions(token) == {s \in sessions : s.token = token /\ now < InstantOf(s.expires_at)}

\* C34: a POST /api/query whose bearer token names no unexpired session
\* (unknown, logged out or expired) is handled exactly as the same request
\* without a token: same response, same quota check, same counter and log.
StaleTokenIsAnonymous ==
    [][resp'.op = "query"
       => \A t \in {4, 6}, v \in LogVisitorHeaders :
             (PostQuery(Address1, Bearer(t), v) /\ LiveSessions(t) = {})
             => PostQuery(Address1, NoHeader, v)]_vars

\* C35: every visitor's query_count stays between 0 and the free-tier ceiling
\* of 3, however the requests of different visitors interleave.
CounterWithinCeiling ==
    \A v \in DOMAIN visitors :
        visitors[v].query_count >= 0 /\ visitors[v].query_count <= 3

\* C35 witness: a visitor stands at the ceiling and was just refused, while
\* another visitor's queries were counted in between.
CeilingHeldAmongTwo ==
    /\ resp.op = "query" /\ resp.status = 200 /\ ~resp.allowed
    /\ visitors[resp.visitor_id].query_count = 3
    /\ \E v \in DOMAIN visitors : v # resp.visitor_id /\ visitors[v].query_count > 0

\* Login against reset: one user asks for a reset token, resets the password
\* and logs in with the old and the new password, the requests overlapping
\* at their awaits.
RaceTokens == 2
RacePending == 2
RaceTokenRange == 3..(2 + RaceTokens)
RaceStep ==
    \/ PostForgotPassword(EmailA)
    \/ \E t \in RaceTokenRange : ResetPasswordBegin(t, Password2)
    \/ \E i \in 1..RacePending : ResetPasswordEnd(i)
    \/ \E p \in {Password1, Password2} : LoginBegin(EmailA, p)
    \/ \E i \in 1..RacePending : LoginEnd(i)
    \/ \E t \in RaceTokenRange : GetMe(Bearer(t))
RaceNext == RaceStep /\ Bounded(2 + RaceTokens, 0, RacePending)
SpecRace == InitRegistered /\ [][RaceNext]_vars

\* C36: no session is created from a password that is no longer the user's:
\* when a login creates a session, the password it verified is the one
\* stored for the user at that moment, so no session authenticated with the
\* old password outlives a completed reset.
NoSessionFromOldPassword ==
    [][(resp'.op = "login" /\ resp'.status = 200)
       => \E i \in DOMAIN pending :
             /\ pending[i].op = "login"
             /\ pending' = RemoveAt(pending, i)
             /\ resp'.user.id = pending[i].user.id
             /\ VerifyPassword(pending[i].password,
                               users[pending[i].user.id].password_hash)]_vars

\* C37: a reset-password request does not change the password when, while it
\* was hashing, a newer reset token was issued for the same user and marked
\* the presented one used.
SupersededResetWritesNothing ==
    [][\A i \in DOMAIN pending :
          (/\ pending[i].op = "reset"
           /\ ResetPasswordEnd(i)
           /\ \E r, n \in DOMAIN password_resets :
                 /\ password_resets[r].token = pending[i].token
                 /\ password_resets[r].used = 1
                 /\ r < n
                 /\ password_resets[n].user_id = password_resets[r].user_id
                 /\ password_resets[n].used = 0)
          => users' = users]_vars

\* C38: a successful reset-password for a user with password P stores a hash
\* that P verifies against and the previous password does not, and touches no
\* other user; no other step, a failed reset included, changes a stored hash;
\* and a login that read the user after the last reset succeeds exactly when
\* its password verifies against the stored hash, and is refused with 401
\* otherwise.
ResetSwitchesPassword ==
    [][/\ (resp'.op = "reset" /\ resp'.status = 200)
          => /\ \E i \in DOMAIN pending :
                   /\ pending[i].op = "reset"
                   /\ pending[i].user_id = resp'.user_id
                   /\ pending' = RemoveAt(pending, i)
                   /\ \A p \in {Password1, Password2, PasswordWeak} :
                         VerifyPassword(p, users'[resp'.user_id].password_hash)
                         <=> p = pending[i].password
             /\ \A u \in DOMAIN users :
                   u # resp'.user_id => users'[u] = users[u]
       /\ ~(resp'.op = "reset" /\ resp'.status = 200)
          => \A u \in DOMAIN users : users'[u].password_hash = users[u].password_hash
       /\ resp'.op = "login"
          => \A i \in DOMAIN pending :
                (/\ pending[i].op = "login"
                 /\ LoginEnd(i)
                 /\ pending[i].user.password_hash
                       = users[pending[i].user.id].password_hash)
                => resp'.status =
                       (IF VerifyPassword(pending[i].password,
                                          users[pending[i].user.id].password_hash)
                        THEN 200 ELSE 401)]_vars

\* C38 witness: after a reset to the second password, a login was refused
\* and the stored hash verifies the second password only.
OldPasswordRefused ==
    /\ resp = InvalidCredentials
    /\ \E i \in DOMAIN password_resets : password_resets[i].used = 1
    /\ VerifyPassword(Password2, users[1].password_hash)
    /\ ~VerifyPassword(Password1, users[1].password_hash)

\* C39: GET /api/queries/history returns exactly the entries whose user_id is
\* the owner of the presented session, with their number as the total, and
\* so none of another user or of an anonymous visitor; entries of other
\* requesters are returned only by /api/queries/history/all to a session
\* whose owner is a superuser.
HistoryIsOwn ==
    [][resp'.op \in {"history", "history_all"} /\ resp'.status = 200
       => \A h \in LogBearers :
             (GetHistory(h) \/ GetHistoryAll(h))
             => /\ UnexpiredSessions(h) # {}
                /\ LET own == {i \in DOMAIN query_log :
                                  query_log[i].user_id = OwnerOf(h)}
                       u == users[OwnerOf(h)]
                   IN /\ resp'.op = "history"
                         => /\ resp'.queries = own
                            /\ resp'.total = Cardinality(own)
                      /\ resp'.queries \subseteq DOMAIN query_log
                      /\ resp'.queries # own
                         => /\ resp'.op = "history_all"
                            /\ (u.is_superuser = 1
                                  \/ ToLowerCase(u.email) \in SUPERUSER_EMAILS)]_vars

\* C39 witness: a user read a history of one entry while the log also held
\* an entry of another requester.
OwnEntryAmongOthers ==
    /\ resp.op = "history" /\ resp.status = 200
    /\ resp.total = 1
    /\ Len(query_log) = 2
    /\ \E i \in DOMAIN query_log : i \notin resp.queries

\* C40: the user view a successful register returns agrees with the stored
\* record at the time of the response: its email_verified equals the stored
\* email_verified flag of the user just created.
RegisterViewMatchesStore ==
    [][(resp'.op = "register" /\ resp'.status = 201)
       => /\ resp'.user.id \in DOMAIN users'
          /\ resp'.user.email = users'[resp'.user.id].email
          /\ resp'.user.email_verified = (users'[resp'.user.id].email_verified # 0)]_vars

====
